---- MODULE Spec2Model ----
(***************************************************************************)
(* A model of potion_client/routes.py: the schema attribute mappers        *)
(* (AttributeMapper, OneOf, Items), the list link proxies with their page  *)
(* iterator, and the Resource instance cache with save/refresh.            *)
(*                                                                         *)
(* Eight specifications share the module:                                   *)
(*   SpecSerialize  one call of AttributeMapper.serialize on drawn inputs  *)
(*   SpecList       a ListLinkProxy against a paging server: len(),        *)
(*                  indexed access and iteration                           *)
(*   SpecIndex      the same proxy under indexed access at every index     *)
(*   SpecArgs       the same proxy under accessors and calls               *)
(*   SpecResource   one Resource instance and its links                    *)
(*   SpecFactory    Resource.factory, new instances and the binding of     *)
(*                  link proxies                                           *)
(*   SpecEquality   two Resource instances compared with ==                *)
(*   SpecClient     a client with either the Resource instance or the      *)
(*                  list proxy, under all their operations                 *)
(* Each leaves the variables of the others at their initial values.        *)
(***************************************************************************)
EXTENDS Integers, Sequences, FiniteSets, TLC

VARIABLES
    ser,        \* SpecSerialize: [def, obj, pc, res]
    srv,        \* SpecList: the server's collection and paging behaviour
    proxies,    \* SpecList: sequence of ListLinkProxy objects, by identity
    log,        \* SpecList: requests issued, in order
    it,         \* SpecList: the ListLinkIterator in use
    touched,    \* SpecList: an operation other than the first iteration ran
    nacc,       \* SpecList: number of accessor / call operations so far
    lret,       \* SpecList: the last len() / [index] operation and its outcome
    res,        \* SpecResource: the Resource instance (_id, _instance)
    calls,      \* SpecResource: what was asked of the server so far
    last,       \* SpecResource: the last operation and what it returned
    cls,        \* SpecFactory: the resource type Resource.factory builds
    objs,       \* SpecFactory: the instances of the type, by identity
    bound,      \* SpecFactory: the bound link proxies, by identity
    flast,      \* SpecFactory: the last bind and its outcome
    peers,      \* SpecEquality: the two Resource instances
    eqret       \* SpecEquality: the last comparison and what it returned

vars == <<ser, srv, proxies, log, it, touched, nacc, lret, res, calls, last,
          cls, objs, bound, flast, peers, eqret>>
listVars == <<srv, proxies, log, it, touched, nacc, lret>>
resVars == <<res, calls, last>>
facVars == <<cls, objs, bound, flast>>
eqVars == <<peers, eqret>>

(***************************************************************************)
(* Python values.  A str is a sequence of characters, a dict a function    *)
(* from keys to values, a float the quotient n/d it was computed as.       *)
(***************************************************************************)
None == [t |-> "none"]
PyInt(n) == [t |-> "int", v |-> n]
PyStr(s) == [t |-> "str", v |-> s]
PyList(s) == [t |-> "list", v |-> s]
PyDict(f) == [t |-> "dict", v |-> f]
PyFloat(n, d) == [t |-> "float", n |-> n, d |-> d]

EmptyDict == [k \in {} |-> None]

\* dict.get(key, default)
Get(f, key, default) == IF key \in DOMAIN f THEN f[key] ELSE default

\* the outcome of a call: a returned value or a raised exception
Ok(v) == [ok |-> TRUE, v |-> v]
Raise(e) == [ok |-> FALSE, err |-> e]
Exc(name) == [e |-> name]

Digits == <<"0", "1", "2", "3", "4", "5", "6", "7", "8", "9">>

RECURSIVE NatToStr(_)
NatToStr(n) ==
    IF n < 10 THEN <<Digits[n + 1]>>
    ELSE NatToStr(n \div 10) \o <<Digits[(n % 10) + 1]>>

IntToStr(n) == IF n < 0 THEN <<"-">> \o NatToStr(-n) ELSE NatToStr(n)

IsDigit(c) == \E i \in 1..10 : Digits[i] = c
DigitVal(c) == (CHOOSE i \in 1..10 : Digits[i] = c) - 1

RECURSIVE StrToNat(_, _)
StrToNat(s, acc) ==
    IF s = <<>> THEN acc ELSE StrToNat(Tail(s), acc * 10 + DigitVal(Head(s)))

RECURSIVE JoinRepr(_)
RECURSIVE Repr(_)
\* repr(value), the text str() gives for a container's elements
Repr(x) ==
    CASE x.t = "none" -> <<"N", "o", "n", "e">>
      [] x.t = "int" -> IntToStr(x.v)
      [] x.t = "str" -> <<"'">> \o x.v \o <<"'">>
      [] x.t = "list" -> <<"[">> \o JoinRepr(x.v) \o <<"]">>
      [] OTHER -> <<"{", "...", "}">>   \* a dict: its text is read by no one
JoinRepr(s) ==
    IF s = <<>> THEN <<>>
    ELSE IF Len(s) = 1 THEN Repr(s[1])
    ELSE Repr(s[1]) \o <<",", " ">> \o JoinRepr(Tail(s))

\* str(value)
StrOf(x) == IF x.t = "str" THEN x.v ELSE Repr(x)

\* list(dict): the keys, in the dict's order (which the model does not keep)
KeyList(f) ==
    CHOOSE q \in [1..Cardinality(DOMAIN f) -> DOMAIN f] : {q[i] : i \in DOMAIN q} = DOMAIN f

\* types[0](obj): the constructor call of a Python builtin type on obj
Coerce(pytype, obj) ==
    CASE pytype = "str" -> Ok(PyStr(StrOf(obj)))
      [] pytype = "int" ->
            CASE obj.t = "int" -> Ok(obj)
              [] obj.t = "str" ->
                    IF obj.v # <<>> /\ \A i \in 1..Len(obj.v) : IsDigit(obj.v[i])
                    THEN Ok(PyInt(StrToNat(obj.v, 0)))
                    ELSE Raise(Exc("ValueError"))
              [] obj.t = "float" -> Ok(PyInt(obj.n \div obj.d))
              [] OTHER -> Raise(Exc("TypeError"))
      [] pytype = "list" ->
            CASE obj.t = "list" -> Ok(obj)
              [] obj.t = "str" -> Ok(PyList([i \in 1..Len(obj.v) |-> PyStr(<<obj.v[i]>>)]))
              [] obj.t = "dict" ->
                    Ok(PyList([i \in 1..Cardinality(DOMAIN obj.v) |->
                                  PyStr(<<KeyList(obj.v)[i]>>)]))
              [] OTHER -> Raise(Exc("TypeError"))
      [] OTHER -> Raise(Exc("TypeError"))

(***************************************************************************)
(* Schema fragments are records with the JSON keys that are present;       *)
(* "type" is always written as a sequence of JSON type names.              *)
(***************************************************************************)
\* utils.type_for: JSON type names to Python types
TypeFor(jsonTypes) ==
    [i \in 1..Len(jsonTypes) |->
        CASE jsonTypes[i] = "object" -> "dict"
          [] jsonTypes[i] = "array" -> "list"
          [] jsonTypes[i] = "string" -> "str"
          [] jsonTypes[i] = "integer" -> "int"
          [] jsonTypes[i] = "null" -> "NoneType"
          [] OTHER -> "float"]

Range(s) == {s[i] : i \in DOMAIN s}

\* the JSON type names a value is an instance of
JsonTypesOf(x) ==
    CASE x.t = "none" -> {"null"}
      [] x.t = "int" -> {"integer", "number"}
      [] x.t = "str" -> {"string"}
      [] x.t = "list" -> {"array"}
      [] x.t = "dict" -> {"object"}
      [] OTHER -> {"number"}

RECURSIVE Validate(_, _)
\* jsonschema.validate(value, definition): TRUE when the value conforms
Validate(x, def) ==
    /\ "type" \in DOMAIN def => JsonTypesOf(x) \cap Range(def.type) # {}
    /\ ("properties" \in DOMAIN def /\ x.t = "dict") =>
            \A k \in DOMAIN x.v \cap DOMAIN def.properties :
                Validate(x.v[k], def.properties[k])
    /\ ("additionalProperties" \in DOMAIN def /\ ~def.additionalProperties /\ x.t = "dict") =>
            DOMAIN x.v \subseteq
                (IF "properties" \in DOMAIN def THEN DOMAIN def.properties ELSE {})
    /\ ("items" \in DOMAIN def /\ x.t = "list") =>
            \A i \in 1..Len(x.v) : Validate(x.v[i], def.items)
    /\ "oneOf" \in DOMAIN def =>
            Cardinality({i \in 1..Len(def.oneOf) : Validate(x, def.oneOf[i])}) = 1

(***************************************************************************)
(* AttributeMapper, OneOf, Items.  A mapper is [cls, definition,           *)
(* read_only, additional_properties]; its _attributes are rebuilt from the *)
(* definition where they are used.                                         *)
(***************************************************************************)
RECURSIVE ParseDefinition(_)
ParseDefinition(m) ==
    IF m.cls = "OneOf" THEN m
    ELSE IF "properties" \in DOMAIN m.definition THEN m
    ELSE IF "items" \in DOMAIN m.definition
         THEN ParseDefinition([m EXCEPT !.definition = m.definition.items, !.cls = "Items"])
    ELSE IF "oneOf" \in DOMAIN m.definition
         THEN ParseDefinition([m EXCEPT !.definition = m.definition.oneOf, !.cls = "OneOf"])
    ELSE m

AttributeMapper(def) ==
    ParseDefinition([cls |-> "AttributeMapper",
                     definition |-> def,
                     read_only |-> Get(def, "readOnly", FALSE),
                     additional_properties |-> Get(def, "additionalProperties", FALSE)])

\* the names in self._attributes
AttributeKeys(m) ==
    IF m.cls = "OneOf" THEN 1..Len(m.definition)
    ELSE IF "properties" \in DOMAIN m.definition THEN DOMAIN m.definition.properties
    ELSE {}

\* self._attributes[key]
Attribute(m, key) ==
    IF m.cls = "OneOf" THEN AttributeMapper(m.definition[key])
    ELSE AttributeMapper(m.definition.properties[key])

RECURSIVE Dedup(_, _)
Dedup(s, seen) ==
    IF s = <<>> THEN <<>>
    ELSE IF Head(s) \in seen THEN Dedup(Tail(s), seen)
    ELSE <<Head(s)>> \o Dedup(Tail(s), seen \cup {Head(s)})

RECURSIVE Types(_)
RECURSIVE VariantTypes(_, _)
VariantTypes(m, i) ==
    IF i > Len(m.definition) THEN <<>>
    ELSE Types(Attribute(m, i)) \o VariantTypes(m, i + 1)
Types(m) ==
    IF m.cls = "OneOf" THEN Dedup(VariantTypes(m, 1), {})
    ELSE TypeFor(Get(m.definition, "type", <<"object">>))

Required(m) == "NoneType" \in Range(Types(m))

EmptyValue(m) ==
    LET Of(types) ==
            IF m.cls = "Items"
            THEN IF "NoneType" \in types THEN None ELSE PyList(<<>>)
            ELSE IF m.read_only \/ "NoneType" \in types THEN None
            ELSE IF "dict" \in types THEN PyDict(EmptyDict)
            ELSE None
    IN  Of(Range(Types(m)))

RECURSIVE Serialize(_, _, _)
RECURSIVE BaseSerialize(_, _, _)
RECURSIVE OneOfSerializeFrom(_, _, _, _, _)

\* AttributeMapper.serialize, the dict branch: one declared or given key
SerializeKey(m, obj, key) ==
    IF obj.t # "dict" THEN Raise(Exc("AttributeError"))
    ELSE IF key \in AttributeKeys(m)
         THEN Serialize(Attribute(m, key), Get(obj.v, key, None), TRUE)
         ELSE Ok(Get(obj.v, key, None))

BaseSerialize(m, obj, valid) ==
    LET iterator ==
            IF m.additional_properties
            THEN (IF obj.t = "dict" THEN DOMAIN obj.v ELSE {})
            ELSE AttributeKeys(m)
        \* the dict branch, given what each key serializes to
        DictOf(val) ==
            IF m.additional_properties /\ obj.t # "dict"
            THEN Raise(Exc("AttributeError"))
            ELSE IF \E k \in DOMAIN val : ~val[k].ok
            THEN val[CHOOSE k \in DOMAIN val : ~val[k].ok]
            ELSE Ok(PyDict([k \in {j \in DOMAIN val : val[j].v # None} |-> val[k].v]))
        Checked(value) ==
            IF ~value.ok THEN value
            ELSE IF valid /\ ~Validate(value.v, m.definition)
            THEN Raise(Exc("ValidationError"))
            ELSE value
        Typed(types) ==
            IF obj = None THEN Ok(EmptyValue(m))
            ELSE IF "dict" \in Range(types)
            THEN DictOf([k \in iterator |-> SerializeKey(m, obj, k)])
            ELSE Coerce(types[1], obj)
    IN  Checked(Typed(Types(m)))

\* OneOf.serialize from variant i on, with the errors collected so far
OneOfSerializeFrom(m, obj, valid, i, errors) ==
    LET Tried(r) ==
            IF r.ok THEN r
            ELSE OneOfSerializeFrom(m, obj, valid, i + 1, Append(errors, r.err))
    IN  IF i > Len(m.definition)
        THEN IF Required(m)
             THEN Raise([e |-> "OneOfException", causes |-> errors])
             ELSE Ok(None)
        ELSE Tried(Serialize(Attribute(m, i), obj, valid))

OneOfSerialize(m, obj, valid) ==
    IF obj = None THEN Ok(None)
    ELSE OneOfSerializeFrom(m, obj, valid, 1, <<>>)

ItemsSerialize(m, iterable, valid) ==
    LET Collected(each) ==
            IF \E i \in DOMAIN each : ~each[i].ok
            THEN each[CHOOSE i \in DOMAIN each :
                        ~each[i].ok /\ \A j \in 1..(i - 1) : each[j].ok]
            ELSE Ok(PyList([i \in DOMAIN each |-> each[i].v]))
    IN  IF iterable = None /\ Required(m) THEN Ok(PyList(<<>>))
        ELSE IF iterable.t # "list" THEN Raise(Exc("AssertionError"))
        ELSE Collected([i \in 1..Len(iterable.v) |->
                           BaseSerialize(m, iterable.v[i], m.definition # EmptyDict)])

Serialize(m, obj, valid) ==
    CASE m.cls = "OneOf" -> OneOfSerialize(m, obj, valid)
      [] m.cls = "Items" -> ItemsSerialize(m, obj, valid)
      [] OTHER -> BaseSerialize(m, obj, valid)

(***************************************************************************)
(* SpecSerialize: serialize applied once to a drawn schema and value.      *)
(***************************************************************************)
MaxVariants == 2

StringSchema == [type |-> <<"string">>]
IntegerSchema == [type |-> <<"integer">>]
NullableIntegerSchema == [type |-> <<"integer", "null">>]
ArraySchema == [type |-> <<"array">>]
ScalarSchemas == {StringSchema, IntegerSchema, NullableIntegerSchema, ArraySchema}

OneOfSchemas ==
    {[oneOf |-> vs] : vs \in UNION {[1..n -> ScalarSchemas] : n \in 1..MaxVariants}}

SerDefs ==
    ScalarSchemas \cup OneOfSchemas
        \cup {[type |-> <<"string">>, readOnly |-> TRUE],
              [type |-> <<"array">>, items |-> IntegerSchema],
              [type |-> <<"array">>, items |-> NullableIntegerSchema],
              [type |-> <<"object">>,
               properties |-> [a |-> IntegerSchema, b |-> StringSchema]],
              [type |-> <<"object">>, additionalProperties |-> FALSE,
               properties |-> [a |-> IntegerSchema, b |-> StringSchema]]}

SerValues ==
    {None, PyInt(4), PyStr(<<"x">>), PyStr(<<"4">>),
     PyList(<<PyInt(1), PyInt(2)>>),
     PyDict([a |-> PyInt(1), b |-> PyStr(<<"x">>), c |-> PyInt(9)]),
     PyDict([a |-> PyInt(1)])}

SerInit ==
    /\ ser \in [def : SerDefs, obj : SerValues, pc : {"call"}, res : {Ok(None)}]

SerializeCall ==
    /\ ser.pc = "call"
    /\ ser' = [ser EXCEPT !.pc = "done",
                          !.res = Serialize(AttributeMapper(ser.def), ser.obj, TRUE)]
    /\ UNCHANGED <<listVars, resVars, facVars, eqVars>>

(***************************************************************************)
(* The paging server a list link talks to.  It holds elements 1..n, serves *)
(* p of them per page (pages are numbered from 1), and links each page of  *)
(* the chain to the next one.  With trail the chain ends in one more,      *)
(* empty, page.  hdr: it sends the X-Total-Count header (and the Link      *)
(* header); first: its Link header carries a "first" relation.             *)
(***************************************************************************)
MaxN == 3
MaxPerPage == 2
MaxRequests == 3
MaxProxies == 7
MaxAccessors == 1
MaxFailures == 1

Min(a, b) == IF a < b THEN a ELSE b

NumPages == IF srv.n = 0 THEN 1 ELSE (srv.n + srv.p - 1) \div srv.p
ChainLen == NumPages + (IF srv.trail THEN 1 ELSE 0)

PageItems(k) ==
    IF k < 1 \/ k > NumPages THEN <<>>
    ELSE [i \in 1..(Min(k * srv.p, srv.n) - (k - 1) * srv.p) |-> (k - 1) * srv.p + i]

AllItems == [i \in 1..srv.n |-> i]

\* the query string of a relation URL, as utils.params_to_dictionary returns it
LinkQuery(k) == [page |-> PyStr(IntToStr(k)), per_page |-> PyStr(IntToStr(srv.p))]

\* requests.Response for GET ?page=k
Response(k) ==
    [json |-> PageItems(k),
     headers |-> IF srv.hdr THEN [total |-> PyStr(IntToStr(srv.n))] ELSE EmptyDict,
     links |-> <<[rel |-> "self", query |-> LinkQuery(k)]>>
               \o (IF srv.first THEN <<[rel |-> "first", query |-> LinkQuery(1)]>> ELSE <<>>)
               \o (IF k < ChainLen THEN <<[rel |-> "next", query |-> LinkQuery(k + 1)]>> ELSE <<>>)]

(***************************************************************************)
(* LinkProxy / ListLinkProxy.  A proxy is [kwargs, collection, total,      *)
(* attrs]: attrs are the relation attributes setattr put on the object,    *)
(* each the identity (index in proxies) of another proxy.                  *)
(***************************************************************************)
\* the list link's schema: the query arguments it declares
LinkSchemaProperties == [page |-> IntegerSchema, per_page |-> IntegerSchema]

\* ListLinkProxy.__init__
NewListProxy(kwargs) ==
    [kwargs |-> kwargs, collection |-> None, total |-> 0, attrs |-> EmptyDict]

\* dict.update / dict[key] = value on the dict object itself
Updated(d, extra) ==
    [k \in DOMAIN d \cup DOMAIN extra |-> IF k \in DOMAIN extra THEN extra[k] ELSE d[k]]

\* LinkProxy.serialize_attribute_value
SerializeAttributeValue(key, value) ==
    IF key \in DOMAIN LinkSchemaProperties
    THEN Serialize(AttributeMapper(LinkSchemaProperties[key]), value, TRUE).v
    ELSE value

\* what new_kwargs = self._kwargs makes of the proxy's own map once new_kwargs is written
AliasedKwargs(own, written) == written

RECURSIVE CreateLinks(_, _, _)
\* [self._create_link(name, link) for name, link in res.links.items()]
CreateLinks(ps, px, links) ==
    LET Linked(rel, new_kwargs) ==
            Append([ps EXCEPT ![px].kwargs = AliasedKwargs(@, new_kwargs),
                              ![px].attrs = Updated(@, [r \in {rel} |-> Len(ps) + 1])],
                   NewListProxy(new_kwargs))
        Create(l) ==
            Linked(l.rel,
                   Updated(ps[px].kwargs,
                           [k \in DOMAIN l.query |-> SerializeAttributeValue(k, l.query[k])]))
    IN  IF links = <<>> THEN ps
        ELSE CreateLinks(Create(Head(links)), px, Tail(links))

\* res.links: requests parses the Link header anew on every access, so the
\* pop("self") of line 297 acts on a dict that is then dropped
ResLinks(resp) == resp.links

\* ListLinkProxy.handler
Handler(ps, px, resp) ==
    IF "total" \in DOMAIN resp.headers
    THEN CreateLinks([ps EXCEPT ![px].total = Coerce("int", resp.headers.total).v.v],
                     px, ResLinks(resp))
    ELSE [ps EXCEPT ![px].total = Len(resp.json)]

\* the page a request's arguments ask for: 0 when it is not a page number
RequestedPage(kwargs) ==
    IF "page" \notin DOMAIN kwargs THEN 1
    ELSE IF kwargs.page.t = "int" /\ kwargs.page.v >= 1 THEN kwargs.page.v
    ELSE 0

\* LinkProxy._resolve with Link.__call__: the proxy's map takes the extra
\* arguments, the request is sent, and a success response goes to the handler.
\* up: the server answers with a success status.
Resolve(ps, px, extra, up) ==
    LET Sent(ps1, page) ==
            IF up /\ page > 0
            THEN [ps |-> Handler(ps1, px, Response(page)),
                  reqs |-> <<[page |-> page, ok |-> TRUE]>>,
                  r |-> Ok(PyList(PageItems(page)))]
            ELSE [ps |-> ps1,
                  reqs |-> <<[page |-> page, ok |-> FALSE]>>,
                  r |-> Raise(Exc("TransportError"))]
        With(new_kwargs) ==
            Sent([ps EXCEPT ![px].kwargs = AliasedKwargs(@, new_kwargs)],
                 RequestedPage(new_kwargs))
    IN  With(Updated(ps[px].kwargs, extra))

\* if self._collection is None: self._collection = self._resolve()
EnsureCollection(ps, px, up) ==
    LET Kept(w) ==
            IF w.r.ok THEN [w EXCEPT !.ps = [w.ps EXCEPT ![px].collection = w.r.v]] ELSE w
    IN  IF ps[px].collection # None
        THEN [ps |-> ps, reqs |-> <<>>, r |-> Ok(ps[px].collection)]
        ELSE Kept(Resolve(ps, px, EmptyDict, up))

\* ListLinkProxy.slice_size
SliceSize(ps, px, up) ==
    LET Size(w) == IF w.r.ok THEN [w EXCEPT !.r = Ok(Len(w.ps[px].collection.v))] ELSE w
    IN  Size(EnsureCollection(ps, px, up))

\* ListLinkProxy.__len__
LenOf(ps, px, up) ==
    LET Total(w) == IF w.r.ok THEN [w EXCEPT !.r = Ok(w.ps[px].total)] ELSE w
    IN  Total(EnsureCollection(ps, px, up))

\* index/per_page and index-page*per_page of lines 336 and 340
TrueDiv(a, b) == PyFloat(a, b)
IndexMinusPageTimes(index, page, per_page) ==
    IF page.t = "float" THEN PyFloat(index * page.d - page.n * per_page, page.d)
    ELSE PyInt(index - page.v * per_page)

\* self._collection[index] for an index that may be a float
Subscript(coll, index) ==
    IF index.t # "int" THEN Raise(Exc("TypeError"))
    ELSE IF index.v >= Len(coll.v) THEN Raise(Exc("IndexError"))
    ELSE Ok(coll.v[index.v + 1])

\* index > self._total for an index that may be a float
GreaterThan(index, total) ==
    IF index.t = "float" THEN index.n > total * index.d ELSE index.v > total

RECURSIVE GetItem(_, _, _, _)
\* ListLinkProxy.__getitem__.  The proxy built at line 339 is held by no one
\* but this call: it is fetched and subscripted, and dropped with the call.
GetItem(ps, px, index, up) ==
    LET \* lines 335-340, with the proxy's map after line 338
        Far(w, per_page, page) ==
            LET Through(ps1, kwargs) ==
                    LET Returned(sub) ==
                            [ps |-> ps1, reqs |-> w.reqs \o sub.reqs, r |-> sub.r]
                    IN  Returned(GetItem(Append(ps1, NewListProxy(kwargs)), Len(ps1) + 1,
                                         IndexMinusPageTimes(index.v, page, per_page), up))
                Written(kwargs) ==
                    Through([w.ps EXCEPT ![px].kwargs = AliasedKwargs(@, kwargs)], kwargs)
            IN  Written(Updated(w.ps[px].kwargs, [k \in {"page"} |-> page]))
        Fetched(w) ==
            IF ~w.r.ok THEN w
            ELSE IF GreaterThan(index, w.ps[px].total)
            THEN IF "per_page" \notin DOMAIN w.ps[px].kwargs
                 THEN [w EXCEPT !.r = Raise(Exc("KeyError"))]
                 ELSE Far(w, w.ps[px].kwargs.per_page.v,
                          TrueDiv(index.v, w.ps[px].kwargs.per_page.v))
            ELSE [w EXCEPT !.r = Subscript(w.ps[px].collection, index)]
    IN  Fetched(EnsureCollection(ps, px, up))

(***************************************************************************)
(* ListLinkIterator: [status, slice, pointer, yielded, err].  status is    *)
(* "active" while the loop runs, "stop" after StopIteration, "raised"      *)
(* after any other exception (err names it), which ends the loop.          *)
(***************************************************************************)
NoIterator == [status |-> "none", slice |-> 0, pointer |-> 0, yielded |-> <<>>, err |-> "none"]

\* ListLinkIterator.__init__, lines 348-351: where the iteration starts
FirstSlice(ps, px) ==
    IF "first" \in DOMAIN ps[px].attrs THEN ps[px].attrs.first ELSE px

\* ListLinkIterator.__next__, lines 357-362, given the slice's size
AdvanceKeepPointer(ps, itr, size) ==
    IF itr.pointer >= size
    THEN IF "next" \in DOMAIN ps[itr.slice].attrs
         THEN [itr EXCEPT !.slice = ps[itr.slice].attrs.next]
         ELSE [itr EXCEPT !.status = "stop"]
    ELSE itr
Advance(ps, itr, size) ==
    IF itr.pointer >= size
    THEN IF "next" \in DOMAIN ps[itr.slice].attrs
         THEN [itr EXCEPT !.slice = ps[itr.slice].attrs.next, !.pointer = 0]
         ELSE [itr EXCEPT !.status = "stop"]
    ELSE itr

NoReturn == [op |-> "none", px |-> 0, index |-> 0, r |-> Ok(None), reqs |-> <<>>, pageLen |-> 0]

\* the server's answers to choose from: a proxy that holds its page asks nothing
Answers(px) == IF proxies[px].collection = None THEN BOOLEAN ELSE {TRUE}

\* the effect of a proxy operation on the proxies and the request log
Commit(w) ==
    /\ Len(log) + Len(w.reqs) <= MaxRequests
    /\ Cardinality({i \in 1..Len(log \o w.reqs) : ~(log \o w.reqs)[i].ok}) <= MaxFailures
    /\ Len(w.ps) <= MaxProxies
    /\ proxies' = w.ps
    /\ log' = log \o w.reqs
    /\ UNCHANGED <<ser, res, calls, last, facVars, eqVars>>

ListInit ==
    /\ srv \in [n : 0..MaxN, p : 1..MaxPerPage, hdr : BOOLEAN, first : BOOLEAN,
                trail : BOOLEAN]
    /\ srv.trail => srv.n > 0
    /\ proxies = <<NewListProxy(EmptyDict)>>
    /\ log = <<>>
    /\ it = NoIterator
    /\ touched = FALSE
    /\ nacc = 0
    /\ lret = NoReturn

\* len(proxy)
LenCall(px) ==
    /\ \E up \in Answers(px) : Commit(LenOf(proxies, px, up))
    /\ lret' = NoReturn
    /\ touched' = TRUE
    /\ UNCHANGED <<srv, it, nacc>>

\* proxy[index]; observe: the outcome is kept in lret
GetItemCall(px, index, observe) ==
    LET Returned(w) ==
            /\ Commit(w)
            /\ lret' = IF observe
                       THEN [op |-> "getitem", px |-> px, index |-> index, r |-> w.r,
                             reqs |-> w.reqs,
                             pageLen |-> IF w.ps[px].collection = None THEN 0
                                         ELSE Len(w.ps[px].collection.v)]
                       ELSE NoReturn
    IN  /\ \E up \in Answers(px) : Returned(GetItem(proxies, px, PyInt(index), up))
        /\ touched' = TRUE
        /\ UNCHANGED <<srv, it, nacc>>

\* iter(proxy): ListLinkIterator.__init__
IterStart(px) ==
    LET Started(slice, w) ==
            /\ Commit(w)
            /\ it' = IF w.r.ok
                     THEN [NoIterator EXCEPT !.status = "active", !.slice = slice]
                     ELSE [NoIterator EXCEPT !.status = "raised", !.err = w.r.err.e]
        From(slice) == \E up \in Answers(slice) : Started(slice, LenOf(proxies, slice, up))
    IN  /\ From(FirstSlice(proxies, px))
        /\ touched' = (touched \/ it.status # "none")
        /\ lret' = NoReturn
        /\ UNCHANGED <<srv, nacc>>

\* next(iterator): ListLinkIterator.__next__
IterNext ==
    LET \* lines 364-366, on the slice the iterator is now at
        Yielded(sz, adv, g) ==
            /\ Commit([g EXCEPT !.reqs = sz.reqs \o g.reqs])
            /\ it' = IF g.r.ok
                     THEN [adv EXCEPT !.pointer = @ + 1, !.yielded = Append(@, g.r.v)]
                     ELSE [adv EXCEPT !.status = "raised", !.err = g.r.err.e]
        \* lines 357-362, given the size of the current slice
        Advanced(sz, adv, up) ==
            IF adv.status = "stop" THEN Commit(sz) /\ it' = adv
            ELSE Yielded(sz, adv, GetItem(sz.ps, adv.slice, PyInt(adv.pointer), up))
        Sized(sz, up) ==
            IF ~sz.r.ok
            THEN Commit(sz) /\ it' = [it EXCEPT !.status = "raised", !.err = sz.r.err.e]
            ELSE Advanced(sz, Advance(sz.ps, it, sz.r.v), up)
        \* the proxy that is asked for its page in this step, if any is
        Asked(adv) == Answers(adv.slice)
    IN  /\ it.status = "active"
        /\ \E up \in Asked(Advance(proxies, it, Len(proxies[it.slice].collection.v))) :
                Sized(SliceSize(proxies, it.slice, up), up)
        /\ lret' = NoReturn
        /\ UNCHANGED <<srv, touched, nacc>>

\* proxy.<prop>(value): the closure new_proxy of LinkProxy._proxy
Accessor(px, prop, val) ==
    /\ nacc < MaxAccessors
    /\ Len(proxies) < MaxProxies
    /\ LET With(new_kwargs) ==
                proxies' = Append([proxies EXCEPT ![px].kwargs = AliasedKwargs(@, new_kwargs)],
                                  NewListProxy(new_kwargs))
           Serialized(attr) ==
                /\ attr.ok
                /\ With(Updated(proxies[px].kwargs, [k \in {prop} |-> attr.v]))
       IN  Serialized(Serialize(AttributeMapper(LinkSchemaProperties[prop]), val, TRUE))
    /\ nacc' = nacc + 1
    /\ touched' = TRUE
    /\ lret' = NoReturn
    /\ UNCHANGED <<srv, log, it>>
    /\ UNCHANGED <<ser, res, calls, last, facVars, eqVars>>

\* proxy(**kwargs): BoundedLinkProxy.__call__
Call(px, extra) ==
    /\ nacc < MaxAccessors
    /\ \E up \in BOOLEAN : Commit(Resolve(proxies, px, extra, up))
    /\ nacc' = nacc + 1
    /\ touched' = TRUE
    /\ lret' = NoReturn
    /\ UNCHANGED <<srv, it>>

\* length(), indexed access (in the page, and past the total) and iteration
ListNext ==
    \/ \E px \in 1..Len(proxies) : LenCall(px)
    \/ \E px \in 1..Len(proxies), index \in {0, srv.n + 1} : GetItemCall(px, index, FALSE)
    \/ \E px \in 1..Len(proxies) : IterStart(px)
    \/ IterNext

\* length() and indexed access, the outcome of each access observed
IndexNext ==
    \/ \E px \in 1..Len(proxies) : LenCall(px)
    \/ \E px \in 1..Len(proxies), index \in 0..(MaxN + 1) : GetItemCall(px, index, TRUE)

\* length(), indexed access, accessors and calls
ArgsNext ==
    \/ \E px \in 1..Len(proxies) : LenCall(px)
    \/ \E px \in 1..Len(proxies), index \in 0..(MaxN + 1) : GetItemCall(px, index, FALSE)
    \/ \E px \in 1..Len(proxies), k \in 1..ChainLen : Accessor(px, "page", PyInt(k))
    \/ \E px \in 1..Len(proxies) : Accessor(px, "per_page", PyInt(srv.p))
    \/ \E px \in 1..Len(proxies), k \in 1..ChainLen :
            \E extra \in {EmptyDict, [page |-> PyInt(k)]} : Call(px, extra)

(***************************************************************************)
(* Resource.  The resource type is built by Resource.factory from a schema *)
(* with a read-only "$uri", a writable string "name", a writable object    *)
(* "meta" and a read-only reference "owner"; its links are "self" and      *)
(* "update" (instance links) and "create" (a type-level link).  The        *)
(* instance is [id, instance]: _id and _instance.                          *)
(***************************************************************************)
MaxCalls == 3

URI == "$uri"
REF == "$ref"

ResourceProperties ==
    [k \in {URI, "name", "meta", "owner"} |->
        CASE k = URI -> [type |-> <<"string">>, readOnly |-> TRUE]
          [] k = "name" -> [type |-> <<"string">>]
          [] k = "owner" -> [type |-> <<"object">>, readOnly |-> TRUE,
                             properties |-> [r \in {REF} |-> StringSchema]]
          [] OTHER -> [type |-> <<"object">>]]

\* cls._attributes, lines 618-620
ResourceAttribute(name) == AttributeMapper(ResourceProperties[name])

\* the properties that get a setter and a deleter, lines 624-630
Writable == {k \in DOMAIN ResourceProperties : ~ResourceAttribute(k).read_only}

UriOf(idn) == PyStr(<<"/", "r", "/">> \o idn)

\* the documents the server may answer a self / create / update request with
ServerDocs ==
    {PyDict([k \in {"name"} |-> PyStr(<<"x">>)]),
     PyDict([k \in {URI, "name"} |-> IF k = URI THEN UriOf(<<"7">>) ELSE PyStr(<<"y">>)]),
     PyDict([k \in {URI} |-> UriOf(<<"8">>)]),
     PyDict([k \in {URI, "meta", "owner", "extra"} |->
                CASE k = URI -> UriOf(<<"7">>)
                  [] k = "meta" -> PyDict(EmptyDict)
                  [] k = "owner" -> PyDict([r \in {REF} |-> UriOf(<<"8">>)])
                  [] OTHER -> PyInt(1)])}

RECURSIVE LastSegment(_)
LastSegment(chars) ==
    IF chars = <<>> \/ chars[Len(chars)] = "/" THEN <<>>
    ELSE LastSegment(SubSeq(chars, 1, Len(chars) - 1)) \o <<chars[Len(chars)]>>

\* utils.parse_uri(uri)[-1]: the last path segment; a uri that is no string fails
ParseUriLast(uri) ==
    IF uri.t # "str" THEN Raise(Exc("AttributeError")) ELSE Ok(PyStr(LastSegment(uri.v)))

\* bool(self._instance)
Truthy(instance) == instance # None /\ instance # PyDict(EmptyDict)

\* Resource.id: [r, v] with r the instance after the call and v the outcome
IdNotKept(r) ==
    IF r.id = None /\ Truthy(r.instance) /\ URI \in DOMAIN r.instance.v
    THEN [r |-> r, v |-> ParseUriLast(r.instance.v[URI])]
    ELSE [r |-> r, v |-> Ok(r.id)]
Id(r) ==
    LET Parsed(parsed) ==
            IF parsed.ok THEN [r |-> [r EXCEPT !.id = parsed.v], v |-> parsed]
            ELSE [r |-> r, v |-> parsed]
    IN  IF r.id = None /\ Truthy(r.instance) /\ URI \in DOMAIN r.instance.v
        THEN Parsed(ParseUriLast(r.instance.v[URI]))
        ELSE [r |-> r, v |-> Ok(r.id)]

\* self._instance.get(key, attr.empty_value), for each declared key
Values(instance) ==
    [k \in DOMAIN ResourceProperties |->
        Get(instance.v, k, EmptyValue(ResourceAttribute(k)))]

\* Resource.valid_instance
ValidInstanceAll(instance) ==
    LET Kept(value) ==
            Ok(PyDict([k \in {j \in DOMAIN value : value[j] # None} |-> value[k]]))
    IN  IF instance = None THEN Raise(Exc("AttributeError"))
        ELSE Kept(Values(instance))
ValidInstance(instance) ==
    LET Kept(value) ==
            Ok(PyDict([k \in {j \in DOMAIN value :
                                ~ResourceAttribute(j).read_only /\ value[j] # None}
                          |-> value[k]]))
    IN  IF instance = None THEN Raise(Exc("AttributeError"))
        ELSE Kept(Values(instance))

\* Link._process_args for a link whose input is the resource itself
ProcessArgs(r) == ValidInstance(r.instance)

\* One invocation of a link proxy of the resource: Link.__call__ with
\* generate_url (which reads the id of an instance route), _process_args, the
\* request, and the handler on a success status.  args: the resource is passed
\* as the body.  Returns [r, sent, body, resp, v]: the instance after,
\* whether a request went out, with what body, the document the server
\* answered with, and the outcome.
Invoke(r, link, args, up, doc) ==
    LET NotSent(i, v) ==
            [r |-> i.r, sent |-> FALSE, body |-> None, resp |-> None, v |-> v]
        Processed(i, body) ==
            IF ~body.ok THEN NotSent(i, body)
            ELSE [r |-> i.r, sent |-> TRUE, body |-> body.v,
                  resp |-> IF up THEN doc ELSE None,
                  v |-> IF up THEN Ok(doc) ELSE Raise(Exc("TransportError"))]
        Generated(i) ==
            IF ~i.v.ok THEN NotSent(i, i.v)
            ELSE Processed(i, IF args THEN ProcessArgs(i.r) ELSE Ok(None))
    IN  Generated(IF link = "create" THEN [r |-> r, v |-> Ok(None)] ELSE Id(r))

NotInvoked(r) == [r |-> r, sent |-> FALSE, body |-> None, resp |-> None, v |-> Ok(None)]

\* self._instance = self.self(): the cache takes the response of a call
Assigned(c) == IF c.v.ok THEN [c EXCEPT !.r.instance = c.v.v] ELSE c

\* Resource.instance with _ensure_instance
InstanceAlways(r, up, doc) == Assigned(Invoke(r, "self", FALSE, up, doc))
Instance(r, up, doc) ==
    IF r.instance = None
    THEN Assigned(Invoke(r, "self", FALSE, up, doc))
    ELSE [NotInvoked(r) EXCEPT !.v = Ok(r.instance)]

\* data_types.for_key(key).resolve(obj, client): a "$ref" object resolves to
\* the resource it refers to; a key without a resolver passes the value on
ForKeyResolve(key, obj) ==
    IF key = REF /\ obj.t = "dict" /\ REF \in DOMAIN obj.v
    THEN [t |-> "resource", uri |-> obj.v[REF]]
    ELSE obj

\* AttributeMapper.resolve
ResolveAttribute(m, obj) ==
    IF obj = None THEN EmptyValue(m)
    ELSE IF "properties" \in DOMAIN m.definition
    THEN ForKeyResolve(KeyList(m.definition.properties)[1], obj)
    ELSE obj

\* dict[key] = value, dict.pop(key, None)
DictSet(d, key, value) == PyDict(Updated(d.v, [k \in {key} |-> value]))
DictPop(d, key) == PyDict([k \in DOMAIN d.v \ {key} |-> d.v[k]])

\* Resource.save: which link it calls
SaveLinkSwapped(idv) == IF idv = None THEN "update" ELSE "create"
SaveLink(idv) == IF idv = None THEN "create" ELSE "update"

NoOp ==
    [op |-> "none", name |-> "", link |-> "none", sent |-> FALSE, body |-> None,
     resp |-> None, v |-> Ok(None)]

NoCalls == [lazy |-> 0, sent |-> 0, failed |-> 0, other |-> FALSE]

ResInit ==
    /\ res \in {[id |-> None, instance |-> PyDict(EmptyDict)]}
                \cup {[id |-> PyStr(<<"7">>), instance |-> d] : d \in {None} \cup ServerDocs}
    /\ calls = NoCalls
    /\ last = NoOp

\* a Resource has been constructed: __init__ leaves _id or _instance set
Constructed == res.id # None \/ res.instance # None

\* What an operation leaves behind: the instance, the outcome, and the count
\* of requests sent, of lazy loads answered and of requests that failed, and
\* whether save / refresh was ever called
Done(c, op, name, link) ==
    /\ Constructed
    /\ calls.sent + (IF c.sent THEN 1 ELSE 0) <= MaxCalls
    /\ res' = c.r
    /\ calls' = [lazy |-> calls.lazy + (IF link = "lazy" /\ c.sent /\ c.v.ok THEN 1 ELSE 0),
                 sent |-> calls.sent + (IF c.sent THEN 1 ELSE 0),
                 failed |-> calls.failed + (IF c.sent /\ ~c.v.ok THEN 1 ELSE 0),
                 other |-> (calls.other \/ op \in {"save", "refresh"})]
    /\ last' = [op |-> op, name |-> name, link |-> link, sent |-> c.sent,
                body |-> c.body, resp |-> c.resp, v |-> c.v]
    /\ UNCHANGED <<ser, listVars, facVars, eqVars>>

\* the answers to choose from: an instance that holds its data asks nothing
ResAnswers == IF res.instance = None THEN BOOLEAN \X ServerDocs
              ELSE {<<TRUE, PyDict(EmptyDict)>>}

\* the link a property access reaches: "lazy" is the self link of _ensure_instance
LazyLink(c) == IF c.sent THEN "lazy" ELSE "none"

\* Resource._get_property on instance r: the call's record, as Invoke gives it
GetterWritesResolved(r, name, up, doc) ==
    LET Read(c, attr, raw) ==
            [c EXCEPT !.r.instance = DictSet(c.r.instance, name, ResolveAttribute(attr, raw)),
                      !.v = Ok(ResolveAttribute(attr, raw))]
        Got(c, attr, got) == Read(c, attr, IF got = None THEN EmptyValue(attr) ELSE got)
        Loaded(c) ==
            IF ~c.v.ok THEN c
            ELSE Got(c, ResourceAttribute(name), Get(c.r.instance.v, name, None))
    IN  Loaded(Instance(r, up, doc))
Getter(r, name, up, doc) ==
    LET Read(c, attr, raw) ==
            [c EXCEPT !.r.instance = DictSet(c.r.instance, name, raw),
                      !.v = Ok(ResolveAttribute(attr, raw))]
        Got(c, attr, got) == Read(c, attr, IF got = None THEN EmptyValue(attr) ELSE got)
        Loaded(c) ==
            IF ~c.v.ok THEN c
            ELSE Got(c, ResourceAttribute(name), Get(c.r.instance.v, name, None))
    IN  Loaded(Instance(r, up, doc))

\* reading a property of the resource
GetProperty(name) ==
    LET Returned(c) == Done(c, "get", name, LazyLink(c))
    IN  \E a \in ResAnswers : Returned(Getter(res, name, a[1], a[2]))

\* Resource._set_property
SetProperty(name, value) ==
    LET Loaded(c, serialized) ==
            IF ~c.v.ok THEN Done(c, "set", name, LazyLink(c))
            ELSE Done([c EXCEPT !.r.instance = DictSet(c.r.instance, name, serialized.v),
                                !.v = Ok(None)],
                      "set", name, LazyLink(c))
        Serialized(serialized) ==
            IF ~serialized.ok
            THEN Done([NotInvoked(res) EXCEPT !.v = serialized], "set", name, "none")
            ELSE \E a \in ResAnswers : Loaded(Instance(res, a[1], a[2]), serialized)
    IN  /\ name \in Writable
        /\ Serialized(Serialize(ResourceAttribute(name), value, TRUE))

\* Resource._del_property
DelProperty(name) ==
    LET Loaded(c) ==
            IF ~c.v.ok THEN Done(c, "del", name, LazyLink(c))
            ELSE Done([c EXCEPT !.r.instance = DictPop(c.r.instance, name), !.v = Ok(None)],
                      "del", name, LazyLink(c))
    IN  /\ name \in Writable
        /\ \E a \in ResAnswers : Loaded(Instance(res, a[1], a[2]))

\* self._instance = <link>(...), then return None
ReplacedOrCleared(c) ==
    IF c.v.ok THEN [Assigned(c) EXCEPT !.v = Ok(None)] ELSE [c EXCEPT !.r.instance = None]
Replaced(c) == IF c.v.ok THEN [Assigned(c) EXCEPT !.v = Ok(None)] ELSE c

\* Resource.save
Save ==
    LET Called(link, c) == Done(Replaced(c), "save", "", link)
        Dispatched(i, link, up, doc) == Called(link, Invoke(i.r, link, TRUE, up, doc))
        Identified(i, up, doc) ==
            IF ~i.v.ok THEN Done([NotInvoked(i.r) EXCEPT !.v = i.v], "save", "", "none")
            ELSE Dispatched(i, SaveLink(i.v.v), up, doc)
    IN  \E up \in BOOLEAN, doc \in ServerDocs : Identified(Id(res), up, doc)

\* Resource.refresh
Refresh ==
    \E up \in BOOLEAN, doc \in ServerDocs :
        Done(Replaced(Invoke(res, "self", FALSE, up, doc)), "refresh", "", "self")

\* the values client code assigns to a property
SetValues == {None, PyStr(<<"x">>), PyInt(4)}

ResNext ==
    \/ \E name \in DOMAIN ResourceProperties : GetProperty(name)
    \/ \E name \in DOMAIN ResourceProperties, value \in SetValues : SetProperty(name, value)
    \/ \E name \in DOMAIN ResourceProperties : DelProperty(name)
    \/ Save
    \/ Refresh

(***************************************************************************)
(* Route, Link and Resource.factory.  A path is a sequence of segments, a  *)
(* literal [lit] or a path parameter [key]; a link description is [rel,    *)
(* method, href, targetSchema], targetSchema with the JSON keys present    *)
(* ("ref" for "$ref").  Routes, links, instances and bound proxies are     *)
(* objects: each is known by its index in the sequence that holds it.      *)
(***************************************************************************)
MaxInstances == 2
MaxBinds == 2

Lit(name) == [lit |-> name]
Key(name) == [key |-> name]

IsKey(segment) == "key" \in DOMAIN segment

\* utils.extract_keys(path): the names of the {name} segments
ExtractKeys(path) == SelectSeq(path, IsKey)

\* Route.__init__
Route(path) == [path |-> path, keys |-> ExtractKeys(path)]

\* Route.is_instance
IsInstance(route) == Len(route.keys) > 0

\* Link.return_type: a Python type, or None where the method falls off its end
LinkReturnType(link) ==
    IF "type" \in DOMAIN link.target_schema THEN TypeFor(link.target_schema.type)[1]
    ELSE IF "ref" \in DOMAIN link.target_schema
         THEN (IF link.target_schema.ref = "#" THEN "object" ELSE "None")
    ELSE "NoneType"

\* LinkProxy.return_type
ProxyReturnType(link) ==
    LET Of(return_type) ==
            IF return_type = "list" THEN "ListLinkProxy"
            ELSE IF return_type = "NoneType" THEN "VoidLinkProxy"
            ELSE "ObjectLinkProxy"
    IN  Of(LinkReturnType(link))

\* what a proxy is bound to: the resource type, an instance of it, or None
TypeBinding == [t |-> "type"]
InstanceBinding(i) == [t |-> "instance", i |-> i]

\* isinstance(binding, (Resource, type(Resource))): type(Resource) is the
\* metaclass type, so every class is accepted, the resource type included
BindingAcceptedAny(binding) == TRUE
BindingAccepted(binding) == binding.t = "instance" \/ binding.t = "type"

\* LinkProxy.bind: self.return_type(link=self._link, binding=instance), with
\* the assertion of ObjectLinkProxy.__init__.  heap: the bound proxies so far.
Bind(heap, link, binding) ==
    LET Built(kind) ==
            IF kind = "ObjectLinkProxy" /\ ~BindingAccepted(binding)
            THEN [heap |-> heap, r |-> Raise(Exc("AssertionError"))]
            ELSE [heap |-> Append(heap, [kind |-> kind, link |-> link, binding |-> binding]),
                  r |-> Ok(Len(heap) + 1)]
    IN  Built(ProxyReturnType(cls.links[link]))

NoClass ==
    [built |-> FALSE, schema |-> <<>>, routeObjs |-> <<>>, routes |-> EmptyDict,
     links |-> <<>>, instance_links |-> EmptyDict, accessors |-> EmptyDict]

RECURSIVE FactoryLinks(_, _)
\* Resource.factory, lines 600-616: the loop over schema[LINKS]
FactoryLinks(c, descs) ==
    LET Registered(c1, desc, route) ==
            LET Linked(c2, link) ==
                    IF IsInstance(c2.routeObjs[route])
                    THEN [c2 EXCEPT !.instance_links = Updated(@, [r \in {desc.rel} |-> link])]
                    ELSE [c2 EXCEPT !.accessors = Updated(@, [r \in {desc.rel} |-> link])]
            IN  Linked([c1 EXCEPT !.links =
                            Append(@, [route |-> route, method |-> desc.method,
                                       target_schema |-> desc.targetSchema])],
                       Len(c1.links) + 1)
        Routed(desc) ==
            IF desc.href \in DOMAIN c.routes
            THEN Registered(c, desc, c.routes[desc.href])
            ELSE Registered([c EXCEPT !.routeObjs = Append(@, Route(desc.href)),
                                      !.routes = Updated(@, [h \in {desc.href} |->
                                                                Len(c.routeObjs) + 1])],
                            desc, Len(c.routeObjs) + 1)
    IN  IF descs = <<>> THEN c
        ELSE FactoryLinks(Routed(Head(descs)), Tail(descs))

RECURSIVE CreateProxiesShared(_, _, _, _)
CreateProxiesShared(heap, attrs, self, names) ==
    IF names = <<>> THEN [heap |-> heap, attrs |-> attrs]
    ELSE IF self > 1
    THEN [heap |-> heap, attrs |-> objs[1].attrs]
    ELSE LET Set(b) ==
                 CreateProxiesShared(b.heap, Updated(attrs, [n \in {Head(names)} |-> b.r.v]),
                                     self, Tail(names))
         IN  Set(Bind(heap, cls.instance_links[Head(names)], InstanceBinding(self)))

RECURSIVE CreateProxies(_, _, _, _)
\* Resource._create_proxies: setattr(self, name, LinkProxy(link=link).bind(self))
CreateProxies(heap, attrs, self, names) ==
    IF names = <<>> THEN [heap |-> heap, attrs |-> attrs]
    ELSE LET Set(b) ==
                 CreateProxies(b.heap, Updated(attrs, [n \in {Head(names)} |-> b.r.v]),
                               self, Tail(names))
         IN  Set(Bind(heap, cls.instance_links[Head(names)], InstanceBinding(self)))

\* the links a schema document may declare for the resource "r"
LinkDescs ==
    <<[rel |-> "self", method |-> "GET", href |-> <<Lit("r"), Key("id")>>,
       targetSchema |-> [ref |-> "#"]],
      [rel |-> "destroy", method |-> "DELETE", href |-> <<Lit("r"), Key("id")>>,
       targetSchema |-> EmptyDict],
      [rel |-> "create", method |-> "POST", href |-> <<Lit("r")>>,
       targetSchema |-> [ref |-> "#"]],
      [rel |-> "instances", method |-> "GET", href |-> <<Lit("r")>>,
       targetSchema |-> [type |-> <<"array">>]]>>

RECURSIVE Chosen(_, _)
\* the descriptions a document keeps of LinkDescs, in their order
Chosen(descs, keep) ==
    IF descs = <<>> THEN <<>>
    ELSE (IF keep[1] THEN <<Head(descs)>> ELSE <<>>)
            \o Chosen(Tail(descs), Tail(keep))

NoBind == [op |-> "none", link |-> 0, binding |-> None, r |-> Ok(None)]

FacInit ==
    /\ cls \in {[NoClass EXCEPT !.schema = Chosen(LinkDescs, keep)] :
                    keep \in [1..Len(LinkDescs) -> BOOLEAN]}
    /\ objs = <<>>
    /\ bound = <<>>
    /\ flast = NoBind

\* Resource.factory(docstring, name, schema, requests_kwargs, client)
Factory ==
    /\ ~cls.built
    /\ cls' = [FactoryLinks(cls, cls.schema) EXCEPT !.built = TRUE]
    /\ UNCHANGED <<objs, bound, flast>>
    /\ UNCHANGED <<ser, listVars, resVars, eqVars>>

\* Resource.__init__: the proxies of a new instance
NewInstance ==
    LET Created(c) ==
            /\ objs' = Append(objs, [attrs |-> c.attrs])
            /\ bound' = c.heap
    IN  /\ cls.built
        /\ Len(objs) < MaxInstances
        /\ Created(CreateProxies(bound, EmptyDict, Len(objs) + 1,
                                 KeyList(cls.instance_links)))
        /\ flast' = NoBind
        /\ UNCHANGED cls
        /\ UNCHANGED <<ser, listVars, resVars, eqVars>>

\* the number of proxies client code has bound so far
ClientBinds == Cardinality({p \in 1..Len(bound) :
                                \A i \in 1..Len(objs) :
                                    \A n \in DOMAIN objs[i].attrs : objs[i].attrs[n] # p})

\* what a bind leaves behind
Bound(op, link, binding, b) ==
    /\ bound' = b.heap
    /\ flast' = [op |-> op, link |-> link, binding |-> binding, r |-> b.r]
    /\ UNCHANGED <<cls, objs>>
    /\ UNCHANGED <<ser, listVars, resVars, eqVars>>

\* LinkProxy.__get__(instance, owner) of a type-level accessor: rel read on
\* instance i, or on the type itself (i = 0)
DescriptorGet(rel, i) ==
    LET To(binding) ==
            Bound("get", cls.accessors[rel], binding, Bind(bound, cls.accessors[rel], binding))
    IN  /\ cls.built
        /\ rel \in DOMAIN cls.accessors
        /\ ClientBinds < MaxBinds
        /\ To(IF i = 0 THEN TypeBinding ELSE InstanceBinding(i))

\* proxy.bind(binding) on a bound proxy
BindCall(p, binding) ==
    /\ ClientBinds < MaxBinds
    /\ Bound("bind", bound[p].link, binding, Bind(bound, bound[p].link, binding))

\* what client code passes to bind
Bindings == {None, TypeBinding} \cup {InstanceBinding(i) : i \in 1..Len(objs)}

FacNext ==
    \/ Factory
    \/ NewInstance
    \/ \E rel \in {"create", "instances"}, i \in 0..Len(objs) : DescriptorGet(rel, i)
    \/ \E p \in 1..Len(bound), binding \in Bindings : BindCall(p, binding)

(***************************************************************************)
(* Resource.__eq__: two instances of the resource type, each read through  *)
(* its "uri" property (the getter of "$uri").                              *)
(***************************************************************************)
PyBool(b) == [t |-> "bool", v |-> b]

\* bool(value) of a property value
Bool(value) ==
    value \notin {None, PyStr(<<>>), PyDict(EmptyDict), PyList(<<>>), PyInt(0)}

\* Resource.__eq__(self, other).  ans: the server's answers to the lazy loads
\* of self and of other.  Returns [self, other, v]; v = Ok(None) is the call
\* that falls off the end of the method.
Eq(self, other, ans) ==
    LET Compared(a, b) ==
            [self |-> a.r, other |-> b.r,
             v |-> IF ~b.v.ok THEN b.v
                   ELSE IF Bool(b.v.v) THEN Ok(PyBool(a.v.v = b.v.v))
                   ELSE Ok(None)]
        Read(a) ==
            IF ~a.v.ok THEN [self |-> a.r, other |-> other, v |-> a.v]
            ELSE IF ~Bool(a.v.v) THEN [self |-> a.r, other |-> other, v |-> Ok(None)]
            ELSE Compared(a, Getter(other, URI, ans[2][1], ans[2][2]))
    IN  Read(Getter(self, URI, ans[1][1], ans[1][2]))

\* the resources compared: a new one, one known by its id and not loaded,
\* and loaded ones
PeerResources ==
    {[id |-> None, instance |-> PyDict(EmptyDict)]}
        \cup {[id |-> PyStr(<<"7">>), instance |-> d] : d \in {None} \cup ServerDocs}
        \cup {[id |-> PyStr(<<"8">>),
               instance |-> PyDict([k \in {URI, "name"} |->
                                IF k = URI THEN UriOf(<<"8">>) ELSE PyStr(<<"y">>)])]}

NoEq == [op |-> "none", self |-> 0, v |-> Ok(None)]

EqInit ==
    /\ peers \in [1..2 -> PeerResources]
    /\ eqret = NoEq

\* the answers to choose from: an instance that holds its data asks nothing
PeerAnswers(r) == IF r.instance = None THEN BOOLEAN \X ServerDocs
                  ELSE {<<TRUE, PyDict(EmptyDict)>>}

\* peers[i] == peers[j]
EqCall(i, j) ==
    LET Returned(e) ==
            /\ peers' = [k \in 1..2 |-> IF k = i THEN e.self ELSE e.other]
            /\ eqret' = [op |-> "eq", self |-> i, v |-> e.v]
    IN  /\ \E a \in PeerAnswers(peers[i]), b \in PeerAnswers(peers[j]) :
                Returned(Eq(peers[i], peers[j], <<a, b>>))
        /\ UNCHANGED <<ser, listVars, resVars, facVars>>

EqNext ==
    \/ EqCall(1, 2)
    \/ EqCall(2, 1)

(***************************************************************************)
(* The specifications.  SerInit0, ListInit0, ResInit0, FacInit0 and        *)
(* EqInit0 stand for the objects a specification does not build: no mapper *)
(* is called, no proxy is bound, no resource is constructed, no type is    *)
(* made, nothing is compared, and nothing changes them.                    *)
(***************************************************************************)
SerInit0 == ser = [def |-> StringSchema, obj |-> None, pc |-> "done", res |-> Ok(None)]

ListInit0 ==
    /\ srv = [n |-> 0, p |-> 1, hdr |-> TRUE, first |-> FALSE, trail |-> FALSE]
    /\ proxies = <<>>
    /\ log = <<>>
    /\ it = NoIterator
    /\ touched = FALSE
    /\ nacc = 0
    /\ lret = NoReturn

ResInit0 ==
    /\ res = [id |-> None, instance |-> None]
    /\ calls = NoCalls
    /\ last = NoOp

FacInit0 ==
    /\ cls = NoClass
    /\ objs = <<>>
    /\ bound = <<>>
    /\ flast = NoBind

EqInit0 ==
    /\ peers = <<>>
    /\ eqret = NoEq

InitSerialize == SerInit /\ ListInit0 /\ ResInit0 /\ FacInit0 /\ EqInit0
InitList == ListInit /\ SerInit0 /\ ResInit0 /\ FacInit0 /\ EqInit0
InitResource == ResInit /\ SerInit0 /\ ListInit0 /\ FacInit0 /\ EqInit0
InitFactory == FacInit /\ SerInit0 /\ ListInit0 /\ ResInit0 /\ EqInit0
InitEquality == EqInit /\ SerInit0 /\ ListInit0 /\ ResInit0 /\ FacInit0

SpecSerialize == InitSerialize /\ [][SerializeCall]_vars

SpecList == InitList /\ [][ListNext]_vars

SpecIndex == InitList /\ [][IndexNext]_vars

SpecArgs == InitList /\ [][ArgsNext]_vars

SpecResource == InitResource /\ [][ResNext]_vars

SpecFactory == InitFactory /\ [][FacNext]_vars

SpecEquality == InitEquality /\ [][EqNext]_vars

\* a client that holds one resource or one list proxy
InitClient == InitResource \/ InitList

ClientNext ==
    \/ ResNext
    \/ ListNext

SpecClient == InitClient /\ [][ClientNext]_vars

(***************************************************************************)
(* OneOf.serialize (SpecSerialize).                                        *)
(***************************************************************************)
StringOrInteger == [oneOf |-> <<StringSchema, IntegerSchema>>]

IsOneOf(def) == "oneOf" \in DOMAIN def

\* no variant of the union admits null
NonNullable(def) == \A i \in 1..Len(def.oneOf) : "null" \notin Range(def.oneOf[i].type)

\* every variant, tried on its own, fails on the value
EveryVariantFails(def, obj) ==
    \A i \in 1..Len(def.oneOf) : ~Serialize(AttributeMapper(def.oneOf[i]), obj, TRUE).ok

\* C7: for a OneOf declared as [string-schema, integer-schema], serialize(4)
\* is produced by the integer variant, so the result is the integer 4 (and
\* serialize("x") is the string "x").
C7_IntegerVariantSerializesInteger ==
    (ser.pc = "done" /\ ser.def = StringOrInteger) =>
        /\ ser.obj = PyStr(<<"x">>) =>
                (ser.res.ok /\ ser.res.v.t = "str" /\ ser.res.v.v = <<"x">>)
        /\ ser.obj = PyInt(4) =>
                (ser.res.ok /\ ser.res.v.t = "int" /\ ser.res.v.v = 4)

\* C8: when every variant of a non-nullable OneOf fails on a non-null value,
\* serialize raises an aggregate error with one cause per variant; it never
\* returns an empty result.
C8_AllVariantsFailRaisesAggregate ==
    (/\ ser.pc = "done"
     /\ IsOneOf(ser.def)
     /\ ser.obj # None
     /\ NonNullable(ser.def)
     /\ EveryVariantFails(ser.def, ser.obj)) =>
        /\ ~ser.res.ok
        /\ ser.res.err.e = "OneOfException"
        /\ Len(ser.res.err.causes) = Len(ser.def.oneOf)

(***************************************************************************)
(* Items.serialize and the object branch of AttributeMapper.serialize      *)
(* (SpecSerialize).                                                        *)
(***************************************************************************)
IsItems(def) == "items" \in DOMAIN def

\* C12: a list attribute serializes a sequence element by element with its
\* inner attribute, serializes null to the attribute's empty value, and
\* fails on any other input.
C12_ListSerializesElementsOrEmptyValue ==
    (ser.pc = "done" /\ IsItems(ser.def)) =>
        /\ ser.obj.t = "list" =>
                /\ ser.res.ok
                /\ ser.res.v.t = "list"
                /\ Len(ser.res.v.v) = Len(ser.obj.v)
                /\ \A i \in 1..Len(ser.obj.v) :
                        Ok(ser.res.v.v[i])
                            = Serialize(AttributeMapper(ser.def.items), ser.obj.v[i], TRUE)
        /\ ser.obj = None =>
                ser.res = Ok(EmptyValue(AttributeMapper(ser.def)))
        /\ ser.obj.t \notin {"list", "none"} => ~ser.res.ok

\* an object attribute that does not pass undeclared keys on
IsClosedObject(def) ==
    "properties" \in DOMAIN def /\ ~Get(def, "additionalProperties", FALSE)

\* C14: an object attribute with additionalProperties = false serializes a
\* mapping to the declared keys the mapping holds, each with its serialized
\* value: undeclared keys are dropped and declared keys without a value are
\* omitted.
C14_ObjectSerializesDeclaredKeysOnly ==
    (ser.pc = "done" /\ IsClosedObject(ser.def) /\ ser.obj.t = "dict") =>
        /\ ser.res.ok
        /\ ser.res.v.t = "dict"
        /\ DOMAIN ser.res.v.v = DOMAIN ser.obj.v \cap DOMAIN ser.def.properties
        /\ \A k \in DOMAIN ser.res.v.v :
                Ok(ser.res.v.v[k])
                    = Serialize(AttributeMapper(ser.def.properties[k]), ser.obj.v[k], TRUE)

(***************************************************************************)
(* Pagination (SpecList).                                                  *)
(***************************************************************************)
\* the first iteration of the freshly bound proxy, nothing else done to it,
\* against a server that sends the count header and the relation links
FirstIteration == ~touched /\ srv.hdr /\ it.status # "none"

\* the iteration is over: StopIteration, or an error that is not the transport's
IterationEnded ==
    it.status = "stop" \/ (it.status = "raised" /\ it.err # "TransportError")

\* C1: iterating a freshly bound list proxy against a server that reports the
\* total N and links its pages by "next" yields the N elements, each once and
\* in page order, with one fetch per page, issued in increasing page order.
C1_IterationYieldsEveryElementOnce ==
    FirstIteration =>
        /\ \A i \in 1..Len(log) : log[i].page = i
        /\ \A i \in 1..(Len(log) - 1) : log[i].ok
        /\ Len(it.yielded) <= srv.n
        /\ it.yielded = SubSeq(AllItems, 1, Len(it.yielded))
        /\ IterationEnded => (it.yielded = AllItems /\ Len(log) = ChainLen)

\* three elements, two per page: the iteration ends after two fetches
C1_Witness ==
    /\ FirstIteration
    /\ it.status = "stop"
    /\ srv.n = 3 /\ srv.p = 2 /\ ~srv.trail
    /\ it.yielded = <<1, 2, 3>>
    /\ Len(log) = 2

\* C2: whatever is done to a list proxy and the relation proxies derived from
\* it, no page of the collection is requested from the server more than once.
C2_NoPageFetchedTwice ==
    \A i, j \in 1..Len(log) :
        (i < j /\ log[i].ok /\ log[j].ok) => log[i].page # log[j].page

\* C9: an iteration ends with StopIteration; the only error it can end with
\* is the transport's.
C9_ExhaustionNeverRaises ==
    (FirstIteration /\ it.status = "raised") => it.err = "TransportError"

\* the relation names of the response for page k
Relations(k) == {Response(k).links[i].rel : i \in 1..Len(Response(k).links)}

\* C13: a list proxy that has handled a response exposes every relation of
\* that response other than "self" as an attribute holding a list proxy, and
\* never "self", whether or not the server sends the count header.
C13_RelationsExposedExceptSelf ==
    \A px \in 1..Len(proxies) :
        proxies[px].collection # None =>
            \E k \in 1..ChainLen :
                /\ proxies[px].collection.v = PageItems(k)
                /\ DOMAIN proxies[px].attrs = Relations(k) \ {"self"}
                /\ \A rel \in DOMAIN proxies[px].attrs :
                        proxies[px].attrs[rel] \in 1..Len(proxies)

(***************************************************************************)
(* The argument map of a proxy (SpecArgs).                                 *)
(***************************************************************************)
\* C5: no operation changes the argument map of a proxy that exists:
\* accessors, calls with extra arguments, the handling of a response's
\* relation links and indexed access leave it as it was.
C5_KwargsNeverChange ==
    [][\A px \in 1..Len(proxies) : proxies'[px].kwargs = proxies[px].kwargs]_vars

(***************************************************************************)
(* Indexed access (SpecIndex).                                             *)
(***************************************************************************)
\* C6: an access at an index past the fetched page, for an element the
\* collection holds, fetches page index / per_page and returns an element.
C6_FarIndexFetchesItsPage ==
    (/\ lret.op = "getitem"
     /\ proxies[lret.px].collection # None
     /\ "per_page" \in DOMAIN proxies[lret.px].kwargs
     /\ lret.index >= lret.pageLen
     /\ lret.index < srv.n) =>
        /\ lret.r.ok
        /\ \E i \in 1..Len(lret.reqs) : lret.reqs[i].page = lret.index \div srv.p

(***************************************************************************)
(* The Resource instance (SpecResource).                                   *)
(***************************************************************************)
\* the resource's identity is known: Resource.id gives a value
IdentityKnown(r) == Id(r).v.ok /\ Id(r).v.v # None

C4_InstanceFetchedOnce ==
    [][(last'.op \in {"get", "set", "del"} /\ ~calls'.other) =>
        /\ calls'.failed = 0 => calls'.sent <= 1
        /\ calls'.lazy <= 1
        /\ last'.sent => (res.instance = None /\ last'.link = "lazy")
        /\ res.instance # None => (~last'.sent /\ calls'.sent = calls.sent)]_vars

\* a read served from the data one earlier lazy load fetched
C4_Witness ==
    /\ last.op = "get" /\ ~last.sent /\ last.v.ok
    /\ calls.lazy = 1 /\ calls.sent = 1 /\ calls.failed = 0 /\ ~calls.other
    /\ res.instance # None

\* valid_instance when the raw cache is there
ValidNow == ValidInstance(res.instance).v.v

\* what valid_instance reads for a field: the cache's value, or the
\* attribute's empty value when the cache does not set the field
Held(k) ==
    IF k \in DOMAIN res.instance.v THEN res.instance.v[k]
    ELSE EmptyValue(ResourceAttribute(k))

ObjectProxies == {p \in 1..Len(bound) : bound[p].kind = "ObjectLinkProxy"}

\* the last bind was of a link whose proxies are Object proxies
ObjectBind ==
    flast.op # "none" /\ ProxyReturnType(cls.links[flast.link]) = "ObjectLinkProxy"

\* C11, as claimed: an Object proxy is bound to a resource instance only; no
\* Object proxy bound to the resource type exists in any reachable state.
C11_ObjectProxyBoundToInstanceOnly ==
    \A p \in ObjectProxies : bound[p].binding.t = "instance"

\* C11, amended: an Object proxy is bound to a resource instance or to a
\* class, the resource type included; binding an Object-shaped link to
\* anything else (None) is rejected at construction, and only that is.
C11_ObjectProxyBoundToInstanceOrType ==
    /\ \A p \in ObjectProxies : bound[p].binding.t \in {"instance", "type"}
    /\ ObjectBind =>
            /\ flast.r.ok <=> flast.binding # None
            /\ flast.r.ok => (/\ flast.r.v = Len(bound)
                              /\ bound[flast.r.v].kind = "ObjectLinkProxy"
                              /\ bound[flast.r.v].binding = flast.binding)
            /\ ~flast.r.ok => flast.r.err.e = "AssertionError"

\* Resource.create read on the type gave an Object proxy bound to the type,
\* and binding that link to None was rejected
C11_Witness ==
    /\ ObjectBind
    /\ flast.op = "bind" /\ flast.binding = None /\ ~flast.r.ok
    /\ \E p \in ObjectProxies : bound[p].binding = TypeBinding

\* the route of a link description has path parameters
HasPathParameters(desc) == \E i \in 1..Len(desc.href) : IsKey(desc.href[i])

\* the proxies held as attributes by instance i
ProxiesOf(i) == {objs[i].attrs[n] : n \in DOMAIN objs[i].attrs}

\* C16: the factory registers a link whose route has path parameters as an
\* instance link and any other as a type-level accessor, one Link per
\* description; links with the same path template share one Route; every
\* instance holds, for each instance link, a proxy of its own, bound to that
\* instance, and no proxy for a type-level link.
C16_FactoryRegistersLinksByRoute ==
    cls.built =>
        /\ Len(cls.links) = Len(cls.schema)
        /\ \A l \in 1..Len(cls.schema) :
                /\ cls.routeObjs[cls.links[l].route].path = cls.schema[l].href
                /\ IF HasPathParameters(cls.schema[l])
                   THEN /\ cls.schema[l].rel \in DOMAIN cls.instance_links
                        /\ cls.instance_links[cls.schema[l].rel] = l
                        /\ cls.schema[l].rel \notin DOMAIN cls.accessors
                   ELSE /\ cls.schema[l].rel \in DOMAIN cls.accessors
                        /\ cls.accessors[cls.schema[l].rel] = l
                        /\ cls.schema[l].rel \notin DOMAIN cls.instance_links
        /\ \A l, m \in 1..Len(cls.schema) :
                (cls.schema[l].href = cls.schema[m].href)
                    <=> (cls.links[l].route = cls.links[m].route)
        /\ \A i \in 1..Len(objs) :
                /\ DOMAIN objs[i].attrs = DOMAIN cls.instance_links
                /\ Cardinality(ProxiesOf(i)) = Cardinality(DOMAIN objs[i].attrs)
                /\ \A n \in DOMAIN objs[i].attrs :
                        /\ bound[objs[i].attrs[n]].link = cls.instance_links[n]
                        /\ bound[objs[i].attrs[n]].binding = InstanceBinding(i)
        /\ \A i, j \in 1..Len(objs) : i # j => ProxiesOf(i) \cap ProxiesOf(j) = {}

\* two instances of a type with two instance links on one route and two
\* type-level links on another, an accessor read on each instance
C16_Witness ==
    /\ cls.built
    /\ Len(cls.schema) = 4 /\ Len(cls.routeObjs) = 2
    /\ Len(objs) = 2
    /\ objs[1].attrs["self"] # objs[2].attrs["self"]
    /\ \E p, q \in 1..Len(bound) :
            /\ p \notin ProxiesOf(1) \cup ProxiesOf(2)
            /\ q \notin ProxiesOf(1) \cup ProxiesOf(2)
            /\ bound[p].binding = InstanceBinding(1)
            /\ bound[q].binding = InstanceBinding(2)
            /\ bound[p].link = bound[q].link

\* the raw value a read of field name finds in the data: the entry, or the
\* attribute's empty value when the entry is missing or null
RawOf(data, name) ==
    IF Get(data.v, name, None) = None THEN EmptyValue(ResourceAttribute(name))
    ELSE data.v[name]

\* C17, as claimed: after a read of property p the cache entry for p is the
\* value the read returned.
C17_CacheEntryIsReturnedValue ==
    (last.op = "get" /\ last.v.ok) => res.instance.v[last.name] = last.v.v

\* C17, amended: a read of property p that returns has the raw data loaded,
\* writes the raw value of p (the empty value when p is missing or null) into
\* the cache and returns that value resolved; a second read of p right after
\* it returns the same value, sends nothing and changes nothing.
C17_GetterWritesRawReturnsResolved ==
    [][(last'.op = "get" /\ last'.v.ok) =>
        /\ res'.instance # None
        /\ last'.name \in DOMAIN res'.instance.v
        /\ res'.instance.v[last'.name]
                = RawOf(IF res.instance = None THEN last'.resp ELSE res.instance, last'.name)
        /\ \A k \in DOMAIN res'.instance.v \ {last'.name} :
                res'.instance.v[k]
                    = (IF res.instance = None THEN last'.resp ELSE res.instance).v[k]
        /\ last'.v.v = ResolveAttribute(ResourceAttribute(last'.name),
                                        res'.instance.v[last'.name])
        /\ (last.op = "get" /\ last.v.ok /\ last.name = last'.name) =>
                (last'.v = last.v /\ ~last'.sent /\ res' = res)]_vars

\* a read of the reference "owner": the cache keeps the reference, the read
\* returned the resource it refers to
C17_Witness ==
    /\ last.op = "get" /\ last.name = "owner" /\ last.v.ok
    /\ res.instance.v["owner"] = PyDict([r \in {REF} |-> UriOf(<<"8">>)])
    /\ last.v.v = [t |-> "resource", uri |-> UriOf(<<"8">>)]

\* C19: once the identity of a resource is known it stays known and stays
\* the same under property reads, writes and deletes, save() and refresh();
\* a save() on a resource whose identity is known calls "update", never
\* "create".
C19_IdentityOnceKnownIsKept ==
    [][IdentityKnown(res) =>
        /\ IdentityKnown(res')
        /\ Id(res').v = Id(res).v
        /\ (last'.op = "save" /\ calls' # calls) => last'.link = "update"]_vars

\* a new resource was created, its identity came with the response, and a
\* later save called "update" and was answered with a document that carries
\* no reference, or another one
C19_Witness ==
    /\ last.op = "save" /\ last.link = "update" /\ last.sent /\ last.v.ok
    /\ calls.sent >= 2
    /\ res.id = PyStr(<<"7">>)
    /\ Get(res.instance.v, URI, None) # UriOf(<<"7">>)

(***************************************************************************)
(* Equality of resources (SpecEquality).                                   *)
(***************************************************************************)
\* the identity reference a resource holds, None when it holds none
Reference(r) == IF r.instance = None THEN None ELSE Get(r.instance.v, URI, None)

\* C15: a comparison that returns gives a definite answer, true or false,
\* also when one of the two resources has no identity reference; when both
\* have one, the answer is whether the references are the same.
C15_EqualityComparesReferences ==
    (eqret.op = "eq" /\ eqret.v.ok) =>
        /\ eqret.v.v \in {PyBool(TRUE), PyBool(FALSE)}
        /\ (Reference(peers[1]) # None /\ Reference(peers[2]) # None) =>
                eqret.v.v = PyBool(Reference(peers[1]) = Reference(peers[2]))

(***************************************************************************)
(* Failed remote calls (SpecClient).                                       *)
(***************************************************************************)
\* the requests the step sent
NewRequests == {i \in (Len(log) + 1)..Len(log') : TRUE}

\* what a list proxy holds of the responses it handled
Fetched(proxy) == [collection |-> proxy.collection, total |-> proxy.total,
                   attrs |-> proxy.attrs]

\* C18: a remote call that fails changes nothing on the client.  When the
\* request of save(), refresh() or the lazy load fails, the raw cache and the
\* identity of the resource are what they were, and an access to a resource
\* whose data is still absent sends the request again.  When every request
\* of a list operation fails, each proxy holds what it held; a proxy stays
\* unfetched (no page, total 0, no relation) until a request of its own
\* succeeds, and an operation on unfetched proxies sends a request.
C18_FailedCallChangesNothing ==
    [][/\ (calls'.sent = calls.sent + 1 /\ ~last'.v.ok) =>
            /\ last'.v.err.e = "TransportError"
            /\ res'.instance = res.instance
            /\ Id(res').v = Id(res).v
       /\ (res.instance = None /\ last'.op \in {"get", "del"}) => last'.sent
       /\ (NewRequests # {} /\ \A i \in NewRequests : ~log'[i].ok) =>
            \A px \in 1..Len(proxies) : Fetched(proxies'[px]) = Fetched(proxies[px])
       /\ \A px \in 1..Len(proxies') :
            proxies'[px].collection = None =>
                (proxies'[px].total = 0 /\ proxies'[px].attrs = EmptyDict)
       /\ (/\ proxies # <<>>
           /\ \A px \in 1..Len(proxies) : proxies[px].collection = None
           /\ <<proxies, log, it, touched>> # <<proxies', log', it', touched'>>) =>
            NewRequests # {}]_vars

\* a save whose request failed, on a resource that holds data and an
\* identity
C18_Witness ==
    /\ last.op = "save" /\ last.sent /\ ~last.v.ok
    /\ res.instance # None /\ "name" \in DOMAIN res.instance.v
    /\ Id(res).v = Ok(PyStr(<<"7">>))

====
